---- MODULE Spec2Model ----
(***************************************************************************)
(* Carbon budget planning dashboard (Rigo548/test_dash).                   *)
(*                                                                         *)
(* The model covers the budget store (src/store/budgetStore.tsx), the      *)
(* portfolio computations (src/utils/compute.ts) and the event handlers    *)
(* that dispatch into the store (HeaderInputs.tsx, TopInputs.tsx,          *)
(* CategoryCard.tsx).                                                      *)
(*                                                                         *)
(* A JavaScript number is modelled as a pair <<n, d>>:                     *)
(*   d > 0         the rational n/d in lowest terms,                       *)
(*   <<0, 0>>      NaN,  <<1, 0>>  Infinity,  <<-1, 0>>  -Infinity.        *)
(* Arithmetic is exact; binary floating-point rounding is not modelled.    *)
(* Negative zero is identified with zero.                                  *)
(***************************************************************************)
EXTENDS Integers, Sequences, FiniteSets, TLC

(***************************************************************************)
(* JavaScript numbers                                                      *)
(***************************************************************************)
RECURSIVE GCD(_, _)
GCD(a, b) == IF b = 0 THEN a ELSE GCD(b, a % b)

Abs(n) == IF n < 0 THEN -n ELSE n

Sgn(n) == IF n > 0 THEN 1 ELSE IF n < 0 THEN -1 ELSE 0

\* the rational n/d (d > 0) in lowest terms
Norm(n, d) ==
  LET g == GCD(Abs(n), d)
  IN  <<n \div g, d \div g>>

N(i) == <<i, 1>>

NaN == <<0, 0>>

PosInf == <<1, 0>>

NegInf == <<-1, 0>>

Zero == N(0)

Hundred == N(100)

\* isFinite(x)
isFinite(x) == x[2] # 0

\* Number.isNaN(x) / isNaN(x) on a number
isNaN(x) == x = NaN

\* a < b  (every comparison with NaN is false)
Lt(a, b) ==
  IF isNaN(a) \/ isNaN(b) THEN FALSE
  ELSE IF a[2] = 0 /\ b[2] = 0 THEN a[1] < b[1]
  ELSE a[1] * b[2] < b[1] * a[2]

\* a > b
Gt(a, b) == Lt(b, a)

\* a === b
StrictEq(a, b) == ~isNaN(a) /\ ~isNaN(b) /\ a = b

\* a <= b
Le(a, b) == Lt(a, b) \/ StrictEq(a, b)

\* a >= b
Ge(a, b) == Le(b, a)

\* a + b
Add(a, b) ==
  IF isNaN(a) \/ isNaN(b) THEN NaN
  ELSE IF isFinite(a) /\ isFinite(b)
       THEN Norm(a[1] * b[2] + b[1] * a[2], a[2] * b[2])
  ELSE IF ~isFinite(a) /\ ~isFinite(b)
       THEN (IF a = b THEN a ELSE NaN)
  ELSE IF ~isFinite(a) THEN a ELSE b

\* -a
Neg(a) == <<-a[1], a[2]>>

\* a - b
Sub(a, b) == Add(a, Neg(b))

\* a * b
Mul(a, b) ==
  IF a[2] * b[2] = 0 THEN <<Sgn(a[1]) * Sgn(b[1]), 0>>
  ELSE Norm(a[1] * b[1], a[2] * b[2])

\* 1 / a
Inv(a) ==
  IF a[1] > 0 THEN <<a[2], a[1]>>
  ELSE IF a[1] < 0 THEN <<-a[2], -a[1]>>
  ELSE IF isNaN(a) THEN NaN ELSE PosInf

\* a / b  (x/0 is +-Infinity, 0/0 is NaN)
Div(a, b) == Mul(a, Inv(b))

\* Math.min(a, b)
MathMin(a, b) ==
  IF isNaN(a) \/ isNaN(b) THEN NaN ELSE IF Lt(b, a) THEN b ELSE a

\* Math.max(a, b)
MathMax(a, b) ==
  IF isNaN(a) \/ isNaN(b) THEN NaN ELSE IF Lt(a, b) THEN b ELSE a

\* Math.floor(a)
MathFloor(a) == IF isFinite(a) THEN N(a[1] \div a[2]) ELSE a

\* x || 0  (0 and NaN are falsy)
OrZero(x) == IF isNaN(x) \/ x = Zero THEN Zero ELSE x

(***************************************************************************)
(* Strings: an identifier is a sequence of one-character strings           *)
(***************************************************************************)
\* String.prototype.trim
RECURSIVE trim(_)
trim(s) ==
  IF s = <<>> THEN s
  ELSE IF Head(s) = " " THEN trim(Tail(s))
  ELSE IF s[Len(s)] = " " THEN trim(SubSeq(s, 1, Len(s) - 1))
  ELSE s

(***************************************************************************)
(* src/utils/compute.ts                                                    *)
(***************************************************************************)
\* a returned value / a thrown Error
Ret(v) == [ok |-> TRUE, v |-> v]

Throw(msg) == [ok |-> FALSE, err |-> msg]

calculateInterventionAbatement_NoCap(intervention, spend) ==
  IF ~isFinite(spend) THEN Throw("Spend must be a finite number")
  ELSE IF Le(intervention.costPerT, Zero)
       THEN Throw("Intervention costPerT must be positive")
  ELSE IF Le(intervention.maxTPerYear, Zero)
       THEN Throw("Intervention maxTPerYear must be positive")
  ELSE IF Le(spend, Zero) THEN Ret(Zero)
  ELSE Ret(Div(spend, intervention.costPerT))

calculateInterventionAbatement_NoFloor(intervention, spend) ==
  IF ~isFinite(spend) THEN Throw("Spend must be a finite number")
  ELSE IF Le(intervention.costPerT, Zero)
       THEN Throw("Intervention costPerT must be positive")
  ELSE IF Le(intervention.maxTPerYear, Zero)
       THEN Throw("Intervention maxTPerYear must be positive")
  ELSE LET theoreticalAbatement == Div(spend, intervention.costPerT)
       IN  Ret(MathMin(intervention.maxTPerYear, theoreticalAbatement))

calculateInterventionAbatement(intervention, spend) ==
  IF ~isFinite(spend) THEN Throw("Spend must be a finite number")
  ELSE IF Le(intervention.costPerT, Zero)
       THEN Throw("Intervention costPerT must be positive")
  ELSE IF Le(intervention.maxTPerYear, Zero)
       THEN Throw("Intervention maxTPerYear must be positive")
  ELSE IF Le(spend, Zero) THEN Ret(Zero)
  ELSE LET theoreticalAbatement == Div(spend, intervention.costPerT)
       IN  Ret(MathMin(intervention.maxTPerYear, theoreticalAbatement))

\* Object.values(allocations).reduce((sum, val) => sum + val, 0)
RECURSIVE sumValues(_)
sumValues(allocations) ==
  IF DOMAIN allocations = {} THEN Zero
  ELSE LET k == CHOOSE x \in DOMAIN allocations : TRUE
           rest == [y \in DOMAIN allocations \ {k} |-> allocations[y]]
       IN  Add(allocations[k], sumValues(rest))

\* allocations[id] || 0
spendOf(allocations, id) ==
  IF id \in DOMAIN allocations THEN OrZero(allocations[id]) ELSE Zero

\* compute.ts lines 73-81, as if the loop walked the allocation map
portfolioTotals_OverAllocations(catalog, allocations) ==
  LET ab == [i \in 1..Len(catalog) |->
               calculateInterventionAbatement(catalog[i],
                                              spendOf(allocations, catalog[i].id))]
      RECURSIVE sumAb(_)
      sumAb(i) == IF i = 0 THEN Zero ELSE Add(sumAb(i - 1), ab[i].v)
  IN  IF \E i \in 1..Len(catalog) : ~ab[i].ok
      THEN Throw("abatement")
      ELSE [ok |-> TRUE,
            portfolioSpend |-> sumValues(allocations),
            portfolioAbatement |-> sumAb(Len(catalog))]

\* compute.ts lines 73-81: catalog.forEach accumulating spend and abatement
RECURSIVE portfolioTotals(_, _)
portfolioTotals(catalog, allocations) ==
  IF catalog = <<>>
  THEN [ok |-> TRUE, portfolioSpend |-> Zero, portfolioAbatement |-> Zero]
  ELSE LET n == Len(catalog)
           acc == portfolioTotals(SubSeq(catalog, 1, n - 1), allocations)
           intervention == catalog[n]
           spend == spendOf(allocations, intervention.id)
           abatement == calculateInterventionAbatement(intervention, spend)
       IN  IF ~acc.ok THEN acc
           ELSE IF ~abatement.ok THEN abatement
           ELSE [ok |-> TRUE,
                 portfolioSpend |-> Add(acc.portfolioSpend, spend),
                 portfolioAbatement |-> Add(acc.portfolioAbatement, abatement.v)]

portfolioCostPerT_Unguarded(portfolioSpend, portfolioAbatement) ==
  Div(portfolioSpend, portfolioAbatement)

\* compute.ts line 84
portfolioCostPerT(portfolioSpend, portfolioAbatement) ==
  IF Gt(portfolioAbatement, Zero)
  THEN Div(portfolioSpend, portfolioAbatement) ELSE Zero

gapToTarget_Signed(targetT, portfolioAbatement) ==
  Sub(targetT, portfolioAbatement)

\* compute.ts line 85
gapToTarget(targetT, portfolioAbatement) ==
  MathMax(Zero, Sub(targetT, portfolioAbatement))

budgetUtilisation_Clamped(portfolioSpend, totalBudget) ==
  IF Gt(totalBudget, Zero)
  THEN MathMin(Hundred, Mul(Div(portfolioSpend, totalBudget), Hundred))
  ELSE Zero

\* compute.ts line 86
budgetUtilisation(portfolioSpend, totalBudget) ==
  IF Gt(totalBudget, Zero)
  THEN Mul(Div(portfolioSpend, totalBudget), Hundred) ELSE Zero

computePortfolioMetrics(catalog, allocations, totalBudget, targetT) ==
  IF ~isFinite(totalBudget) \/ Lt(totalBudget, Zero)
  THEN Throw("Total budget must be a non-negative finite number")
  ELSE IF ~isFinite(targetT) \/ Lt(targetT, Zero)
  THEN Throw("Target reduction must be a non-negative finite number")
  ELSE LET t == portfolioTotals(catalog, allocations)
       IN  IF ~t.ok THEN t
           ELSE [ok |-> TRUE,
                 portfolioSpend |-> t.portfolioSpend,
                 portfolioAbatement |-> t.portfolioAbatement,
                 portfolioCostPerT |->
                   portfolioCostPerT(t.portfolioSpend, t.portfolioAbatement),
                 gapToTarget |-> gapToTarget(targetT, t.portfolioAbatement),
                 budgetUtilisation |->
                   budgetUtilisation(t.portfolioSpend, totalBudget)]

calculateEfficiencyScore(costPerT) ==
  IF ~isFinite(costPerT) THEN Throw("Cost per tonne must be a finite number")
  ELSE IF Lt(costPerT, Zero) THEN Throw("Cost per tonne cannot be negative")
  ELSE IF StrictEq(costPerT, Zero) THEN Ret("excellent")
  ELSE IF Le(costPerT, N(50)) THEN Ret("excellent")
  ELSE IF Le(costPerT, N(100)) THEN Ret("good")
  ELSE IF Le(costPerT, N(150)) THEN Ret("fair")
  ELSE Ret("poor")

calculateTargetProgress(abatement, target) ==
  IF ~isFinite(abatement) THEN Throw("Abatement must be a finite number")
  ELSE IF ~isFinite(target) THEN Throw("Target must be a finite number")
  ELSE IF Lt(abatement, Zero) THEN Throw("Abatement cannot be negative")
  ELSE IF Lt(target, Zero) THEN Throw("Target cannot be negative")
  ELSE IF StrictEq(target, Zero) THEN Ret(Zero)
  ELSE Ret(MathMin(N(100), Mul(Div(abatement, target), N(100))))

(***************************************************************************)
(* src/charts/MACC.tsx, src/charts/BudgetByCategory.tsx                    *)
(***************************************************************************)
\* Array.prototype.sort((a, b) => a.key - b.key) on a sequence of records
\* [key, row]: stable, an element moves in front of the first one whose key
\* compares greater
RECURSIVE sortByKey(_)
sortByKey(keyed) ==
  IF keyed = <<>> THEN <<>>
  ELSE LET n == Len(keyed)
           sorted == sortByKey(SubSeq(keyed, 1, n - 1))
           x == keyed[n]
           after == {i \in 1..(n - 1) : Gt(sorted[i].key, x.key)}
           p == IF after = {} THEN n
                ELSE CHOOSE i \in after : \A j \in after : i <= j
       IN  SubSeq(sorted, 1, p - 1) \o <<x>> \o SubSeq(sorted, p, n - 1)

\* the rows of a keyed sequence
rowsOf(keyed) == [i \in 1..Len(keyed) |-> keyed[i].row]

fundedRows_Unsorted(catalog, allocations) ==
  LET funded == SelectSeq(catalog,
                  LAMBDA i : Gt(spendOf(allocations, i.id), Zero))
      ab == [k \in 1..Len(funded) |->
               calculateInterventionAbatement(
                 funded[k], spendOf(allocations, funded[k].id))]
  IN  IF \E k \in 1..Len(funded) : ~ab[k].ok THEN <<>>
      ELSE [k \in 1..Len(funded) |->
              [cat |-> funded[k].cat,
               interventionId |-> funded[k].id,
               spend |-> spendOf(allocations, funded[k].id),
               abatement |-> ab[k].v,
               costPerT |-> funded[k].costPerT]]

\* MACC.tsx fundedRows: one row per catalog intervention with spend > 0,
\* sorted by costPerT; an exception empties the list (catch, line 38)
fundedRows(catalog, allocations) ==
  LET funded == SelectSeq(catalog,
                  LAMBDA i : Gt(spendOf(allocations, i.id), Zero))
      ab == [k \in 1..Len(funded) |->
               calculateInterventionAbatement(
                 funded[k], spendOf(allocations, funded[k].id))]
  IN  IF \E k \in 1..Len(funded) : ~ab[k].ok THEN <<>>
      ELSE rowsOf(sortByKey(
             [k \in 1..Len(funded) |->
                [key |-> funded[k].costPerT,
                 row |-> [cat |-> funded[k].cat,
                          interventionId |-> funded[k].id,
                          spend |-> spendOf(allocations, funded[k].id),
                          abatement |-> ab[k].v,
                          costPerT |-> funded[k].costPerT]]]))

\* the keys of categorySpending in insertion order: each category at its
\* first appearance in the catalog
RECURSIVE categoriesOf(_)
categoriesOf(catalog) ==
  IF catalog = <<>> THEN <<>>
  ELSE LET n == Len(catalog)
           before == categoriesOf(SubSeq(catalog, 1, n - 1))
       IN  IF \E i \in 1..Len(before) : before[i] = catalog[n].cat
           THEN before ELSE Append(before, catalog[n].cat)

\* categorySpending.get(cat) after the forEach of lines 51-55
RECURSIVE categorySpending(_, _, _)
categorySpending(catalog, allocations, cat) ==
  IF catalog = <<>> THEN Zero
  ELSE LET n == Len(catalog)
           stored == categorySpending(SubSeq(catalog, 1, n - 1), allocations, cat)
           currentSpend == OrZero(stored)
       IN  IF catalog[n].cat = cat
           THEN Add(currentSpend, spendOf(allocations, catalog[n].id))
           ELSE stored

\* Array.from(categorySpending.values()).reduce((sum, spend) => sum + spend, 0)
RECURSIVE sumSpending(_, _, _)
sumSpending(cats, catalog, allocations) ==
  IF cats = <<>> THEN Zero
  ELSE Add(sumSpending(SubSeq(cats, 1, Len(cats) - 1), catalog, allocations),
           categorySpending(catalog, allocations, cats[Len(cats)]))

categoryData_Unfiltered(catalog, allocations) ==
  LET cats == categoriesOf(catalog)
      totalSpend == sumSpending(cats, catalog, allocations)
  IN  rowsOf(sortByKey(
        [k \in 1..Len(cats) |->
           LET spend == categorySpending(catalog, allocations, cats[k])
           IN  [key |-> Neg(spend),
                row |-> [category |-> cats[k],
                         spend |-> spend,
                         percentage |->
                           IF Gt(totalSpend, Zero)
                           THEN Mul(Div(spend, totalSpend), Hundred)
                           ELSE Zero]]]))

\* BudgetByCategory.tsx categoryData: spend per category, categories without
\* spend dropped, share of the total, sorted by b.spend - a.spend
categoryData(catalog, allocations) ==
  LET cats == categoriesOf(catalog)
      totalSpend == sumSpending(cats, catalog, allocations)
      withSpend == SelectSeq(cats,
                     LAMBDA c : Gt(categorySpending(catalog, allocations, c), Zero))
  IN  rowsOf(sortByKey(
        [k \in 1..Len(withSpend) |->
           LET spend == categorySpending(catalog, allocations, withSpend[k])
           IN  [key |-> Neg(spend),
                row |-> [category |-> withSpend[k],
                         spend |-> spend,
                         percentage |->
                           IF Gt(totalSpend, Zero)
                           THEN Mul(Div(spend, totalSpend), Hundred)
                           ELSE Zero]]]))

(***************************************************************************)
(* src/store/budgetStore.tsx                                               *)
(***************************************************************************)
validNonNegative(x) == isFinite(x) /\ ~Lt(x, Zero)

validateBudgetState_NoAllocations(partial) ==
  IF "totalBudget" \in DOMAIN partial /\ ~validNonNegative(partial.totalBudget)
  THEN [isValid |-> FALSE,
        error |-> "Total budget must be a non-negative finite number"]
  ELSE IF "targetT" \in DOMAIN partial /\ ~validNonNegative(partial.targetT)
  THEN [isValid |-> FALSE,
        error |-> "Target reduction must be a non-negative finite number"]
  ELSE IF "futureBudgets" \in DOMAIN partial
          /\ Len(partial.futureBudgets) # 4
  THEN [isValid |-> FALSE,
        error |-> "Future budgets must be an array of exactly 4 numbers"]
  ELSE IF "futureBudgets" \in DOMAIN partial
          /\ \E i \in 1..Len(partial.futureBudgets) :
                ~validNonNegative(partial.futureBudgets[i])
  THEN [isValid |-> FALSE,
        error |-> "Future budget must be a non-negative finite number"]
  ELSE [isValid |-> TRUE, error |-> ""]

\* validateBudgetState: state is a partial BudgetState (a record holding
\* some of the four fields); the first failing check decides the error
validateBudgetState(partial) ==
  IF "totalBudget" \in DOMAIN partial /\ ~validNonNegative(partial.totalBudget)
  THEN [isValid |-> FALSE,
        error |-> "Total budget must be a non-negative finite number"]
  ELSE IF "targetT" \in DOMAIN partial /\ ~validNonNegative(partial.targetT)
  THEN [isValid |-> FALSE,
        error |-> "Target reduction must be a non-negative finite number"]
  ELSE IF "futureBudgets" \in DOMAIN partial
          /\ Len(partial.futureBudgets) # 4
  THEN [isValid |-> FALSE,
        error |-> "Future budgets must be an array of exactly 4 numbers"]
  ELSE IF "futureBudgets" \in DOMAIN partial
          /\ \E i \in 1..Len(partial.futureBudgets) :
                ~validNonNegative(partial.futureBudgets[i])
  THEN [isValid |-> FALSE,
        error |-> "Future budget must be a non-negative finite number"]
  ELSE IF "allocations" \in DOMAIN partial
          /\ \E id \in DOMAIN partial.allocations :
                \/ Len(trim(id)) = 0
                \/ ~validNonNegative(partial.allocations[id])
  THEN [isValid |-> FALSE,
        error |-> "Allocation must have a non-empty id and a non-negative finite spend"]
  ELSE [isValid |-> TRUE, error |-> ""]

validateAction(action) ==
  CASE action.type = "SET_TOTAL_BUDGET" ->
         validateBudgetState([totalBudget |-> action.payload])
    [] action.type = "SET_TARGET" ->
         validateBudgetState([targetT |-> action.payload])
    [] action.type = "SET_FUTURE_BUDGETS" ->
         validateBudgetState([futureBudgets |-> action.payload])
    [] action.type = "SET_ALLOCATION" ->
         IF Len(trim(action.payload.interventionId)) = 0
         THEN [isValid |-> FALSE,
               error |-> "Intervention ID must be a non-empty string"]
         ELSE validateBudgetState(
                [allocations |->
                   [id \in {action.payload.interventionId} |-> action.payload.spend]])
    [] action.type = "RESET_ALL_ALLOCATIONS" ->
         [isValid |-> TRUE, error |-> ""]
    [] OTHER -> [isValid |-> FALSE, error |-> "Unknown action type"]

FutureDefaults == <<N(450000), N(400000), N(350000), N(300000)>>

\* the empty allocations object {}
NoAllocations == [id \in {} |-> Zero]

initialState_ZeroFutures ==
  [totalBudget |-> N(500000),
   targetT |-> N(3000),
   futureBudgets |-> <<Zero, Zero, Zero, Zero>>,
   allocations |-> NoAllocations]

initialState ==
  [totalBudget |-> N(500000),
   targetT |-> N(3000),
   futureBudgets |-> FutureDefaults,
   allocations |-> NoAllocations]

applyAction_KeepZero(state, action) ==
  CASE action.type = "SET_TOTAL_BUDGET" ->
         [state EXCEPT !.totalBudget = action.payload]
    [] action.type = "SET_TARGET" ->
         [state EXCEPT !.targetT = action.payload]
    [] action.type = "SET_FUTURE_BUDGETS" ->
         [state EXCEPT !.futureBudgets = action.payload]
    [] action.type = "SET_ALLOCATION" ->
         LET interventionId == action.payload.interventionId
             spend == action.payload.spend
             old == state.allocations
         IN  [state EXCEPT !.allocations =
                [id \in DOMAIN old \cup {interventionId} |->
                   IF id = interventionId THEN spend ELSE old[id]]]
    [] action.type = "RESET_ALL_ALLOCATIONS" ->
         [state EXCEPT !.allocations = NoAllocations]
    [] OTHER -> state

applyAction_ReplaceAll(state, action) ==
  CASE action.type = "SET_TOTAL_BUDGET" ->
         [state EXCEPT !.totalBudget = action.payload]
    [] action.type = "SET_TARGET" ->
         [state EXCEPT !.targetT = action.payload]
    [] action.type = "SET_FUTURE_BUDGETS" ->
         [state EXCEPT !.futureBudgets = action.payload]
    [] action.type = "SET_ALLOCATION" ->
         LET interventionId == action.payload.interventionId
             spend == action.payload.spend
         IN  IF StrictEq(spend, Zero)
             THEN [state EXCEPT !.allocations = NoAllocations]
             ELSE [state EXCEPT !.allocations =
                     [id \in {interventionId} |-> spend]]
    [] action.type = "RESET_ALL_ALLOCATIONS" ->
         [state EXCEPT !.allocations = NoAllocations]
    [] OTHER -> state

applyAction_FirstWrite(state, action) ==
  CASE action.type = "SET_TOTAL_BUDGET" ->
         [state EXCEPT !.totalBudget = action.payload]
    [] action.type = "SET_TARGET" ->
         [state EXCEPT !.targetT = action.payload]
    [] action.type = "SET_FUTURE_BUDGETS" ->
         [state EXCEPT !.futureBudgets = action.payload]
    [] action.type = "SET_ALLOCATION" ->
         LET interventionId == action.payload.interventionId
             spend == action.payload.spend
             old == state.allocations
         IN  IF StrictEq(spend, Zero)
             THEN [state EXCEPT !.allocations =
                     [id \in DOMAIN old \ {interventionId} |-> old[id]]]
             ELSE [state EXCEPT !.allocations =
                     [id \in DOMAIN old \cup {interventionId} |->
                        IF id \in DOMAIN old THEN old[id] ELSE spend]]
    [] action.type = "RESET_ALL_ALLOCATIONS" ->
         [state EXCEPT !.allocations = NoAllocations]
    [] OTHER -> state

\* the switch of budgetReducer (lines 130-176), reached when the action is valid
applyAction(state, action) ==
  CASE action.type = "SET_TOTAL_BUDGET" ->
         [state EXCEPT !.totalBudget = action.payload]
    [] action.type = "SET_TARGET" ->
         [state EXCEPT !.targetT = action.payload]
    [] action.type = "SET_FUTURE_BUDGETS" ->
         [state EXCEPT !.futureBudgets = action.payload]
    [] action.type = "SET_ALLOCATION" ->
         LET interventionId == action.payload.interventionId
             spend == action.payload.spend
             old == state.allocations
         IN  IF StrictEq(spend, Zero)
             THEN [state EXCEPT !.allocations =
                     [id \in DOMAIN old \ {interventionId} |-> old[id]]]
             ELSE [state EXCEPT !.allocations =
                     [id \in DOMAIN old \cup {interventionId} |->
                        IF id = interventionId THEN spend ELSE old[id]]]
    [] action.type = "RESET_ALL_ALLOCATIONS" ->
         [state EXCEPT !.allocations = NoAllocations]
    [] OTHER -> state

budgetReducer_NoValidation(state, action) == applyAction(state, action)

budgetReducer(state, action) ==
  IF ~validateAction(action).isValid THEN state
  ELSE applyAction(state, action)

\* budgetActions: the action creators return an action or throw
setTotalBudget(amount) ==
  IF ~isFinite(amount) \/ Lt(amount, Zero) THEN Throw("Invalid total budget")
  ELSE Ret([type |-> "SET_TOTAL_BUDGET", payload |-> amount])

setTarget(target) ==
  IF ~isFinite(target) \/ Lt(target, Zero) THEN Throw("Invalid target")
  ELSE Ret([type |-> "SET_TARGET", payload |-> target])

setFutureBudgets(budgets) ==
  IF Len(budgets) # 4 THEN Throw("Invalid future budgets")
  ELSE IF \E i \in 1..Len(budgets) :
             ~isFinite(budgets[i]) \/ Lt(budgets[i], Zero)
  THEN Throw("Invalid future budget")
  ELSE Ret([type |-> "SET_FUTURE_BUDGETS", payload |-> budgets])

setAllocation(interventionId, spend) ==
  IF Len(trim(interventionId)) = 0 THEN Throw("Invalid intervention ID")
  ELSE IF ~isFinite(spend) \/ Lt(spend, Zero) THEN Throw("Invalid spend amount")
  ELSE Ret([type |-> "SET_ALLOCATION",
            payload |-> [interventionId |-> trim(interventionId),
                         spend |-> spend]])

resetAllAllocations == [type |-> "RESET_ALL_ALLOCATIONS"]

(***************************************************************************)
(* src/types/index.ts, src/components/CategoryCard.tsx, App                *)
(***************************************************************************)
Categories == {"Electricity", "Gas/Heating", "Water", "Waste", "Travel"}

isCategory(value) == value \in Categories

\* validateIntervention(...).isValid for a record with id, cat, costPerT and
\* maxTPerYear (the name of an intervention is not modelled)
validateIntervention(i) ==
  [isValid |->
     /\ Len(trim(i.id)) # 0
     /\ i.cat \in Categories
     /\ isFinite(i.costPerT) /\ ~Le(i.costPerT, Zero)
     /\ isFinite(i.maxTPerYear) /\ ~Le(i.maxTPerYear, Zero)]

\* validateProps: throws on an invalid category or intervention
validateProps(props) ==
  IF ~isCategory(props.cat) THEN Throw("Invalid category")
  ELSE IF \E k \in 1..Len(props.interventions) :
             ~validateIntervention(props.interventions[k]).isValid
  THEN Throw("Invalid intervention")
  ELSE Ret(TRUE)

\* App.getInterventionsForCategory
getInterventionsForCategory_All(catalog, category) == catalog

getInterventionsForCategory(catalog, category) ==
  SelectSeq(catalog, LAMBDA intervention : intervention.cat = category)

calculateAbatement_NoCeiling(intervention, spend) ==
  IF Le(spend, Zero) \/ Le(intervention.costPerT, Zero) THEN Zero
  ELSE Div(spend, intervention.costPerT)

\* CategoryCard's own calculateAbatement (lines 55-58)
calculateAbatement(intervention, spend) ==
  IF Le(spend, Zero) \/ Le(intervention.costPerT, Zero) THEN Zero
  ELSE MathMin(Div(spend, intervention.costPerT), intervention.maxTPerYear)

\* the reduce of lines 61-73
RECURSIVE cardTotals(_, _)
cardTotals(interventions, allocations) ==
  IF interventions = <<>> THEN [subtotal |-> Zero, totalAbatement |-> Zero]
  ELSE LET n == Len(interventions)
           acc == cardTotals(SubSeq(interventions, 1, n - 1), allocations)
           intervention == interventions[n]
           spend == spendOf(allocations, intervention.id)
           abatement == calculateAbatement(intervention, spend)
       IN  [subtotal |-> Add(acc.subtotal, spend),
            totalAbatement |-> Add(acc.totalAbatement, abatement)]

\* canDistribute (lines 80-88): the fill button is rendered only when true
canDistribute(st, interventions) ==
  LET totalAllocated == sumValues(st.allocations)
      remaining == Sub(st.totalBudget, totalAllocated)
  IN  /\ Gt(remaining, Zero)
      /\ \E k \in 1..Len(interventions) :
            LET int == interventions[k]
                currentSpend == spendOf(st.allocations, int.id)
                currentAbatement == calculateAbatement(int, currentSpend)
            IN  Lt(currentAbatement, int.maxTPerYear)

sortedInterventions_Descending(interventions) ==
  rowsOf(sortByKey([k \in 1..Len(interventions) |->
                      [key |-> Neg(interventions[k].costPerT),
                       row |-> interventions[k]]]))

\* [...interventions].sort((a, b) => a.costPerT - b.costPerT)
sortedInterventions(interventions) ==
  rowsOf(sortByKey([k \in 1..Len(interventions) |->
                      [key |-> interventions[k].costPerT,
                       row |-> interventions[k]]]))

roiStep_Overwrite(acc, allocations, intervention) ==
  IF acc.threw \/ Le(acc.remainingBudget, Zero) THEN acc
  ELSE LET currentSpend == spendOf(allocations, intervention.id)
           currentAbatement == calculateAbatement(intervention, currentSpend)
           remainingCapacity == Sub(intervention.maxTPerYear, currentAbatement)
           maxAdditionalSpend == Mul(remainingCapacity, intervention.costPerT)
           additionalSpend == MathMin(acc.remainingBudget, maxAdditionalSpend)
           a == setAllocation(intervention.id, additionalSpend)
       IN  IF ~Gt(remainingCapacity, Zero) THEN acc
           ELSE IF ~a.ok THEN [acc EXCEPT !.threw = TRUE]
           ELSE [remainingBudget |-> Sub(acc.remainingBudget, additionalSpend),
                 actions |-> Append(acc.actions, a.v),
                 threw |-> FALSE]

roiStep_NoDecrement(acc, allocations, intervention) ==
  IF acc.threw \/ Le(acc.remainingBudget, Zero) THEN acc
  ELSE LET currentSpend == spendOf(allocations, intervention.id)
           currentAbatement == calculateAbatement(intervention, currentSpend)
           remainingCapacity == Sub(intervention.maxTPerYear, currentAbatement)
           maxAdditionalSpend == Mul(remainingCapacity, intervention.costPerT)
           additionalSpend == MathMin(acc.remainingBudget, maxAdditionalSpend)
           newTotal == Add(currentSpend, additionalSpend)
           a == setAllocation(intervention.id, newTotal)
       IN  IF ~Gt(remainingCapacity, Zero) THEN acc
           ELSE IF ~a.ok THEN [acc EXCEPT !.threw = TRUE]
           ELSE [remainingBudget |-> acc.remainingBudget,
                 actions |-> Append(acc.actions, a.v),
                 threw |-> FALSE]

roiStep_HalfSpend(acc, allocations, intervention) ==
  IF acc.threw \/ Le(acc.remainingBudget, Zero) THEN acc
  ELSE LET currentSpend == spendOf(allocations, intervention.id)
           currentAbatement == calculateAbatement(intervention, currentSpend)
           remainingCapacity == Sub(intervention.maxTPerYear, currentAbatement)
           maxAdditionalSpend == Mul(remainingCapacity, intervention.costPerT)
           additionalSpend == Div(MathMin(acc.remainingBudget, maxAdditionalSpend), N(2))
           newTotal == Add(currentSpend, additionalSpend)
           a == setAllocation(intervention.id, newTotal)
       IN  IF ~Gt(remainingCapacity, Zero) THEN acc
           ELSE IF ~a.ok THEN [acc EXCEPT !.threw = TRUE]
           ELSE [remainingBudget |-> Sub(acc.remainingBudget, additionalSpend),
                 actions |-> Append(acc.actions, a.v),
                 threw |-> FALSE]

roiStep_NoCeiling(acc, allocations, intervention) ==
  IF acc.threw \/ Le(acc.remainingBudget, Zero) THEN acc
  ELSE LET currentSpend == spendOf(allocations, intervention.id)
           currentAbatement == calculateAbatement(intervention, currentSpend)
           remainingCapacity == Sub(intervention.maxTPerYear, currentAbatement)
           additionalSpend == acc.remainingBudget
           newTotal == Add(currentSpend, additionalSpend)
           a == setAllocation(intervention.id, newTotal)
       IN  IF ~Gt(remainingCapacity, Zero) THEN acc
           ELSE IF ~a.ok THEN [acc EXCEPT !.threw = TRUE]
           ELSE [remainingBudget |-> Sub(acc.remainingBudget, additionalSpend),
                 actions |-> Append(acc.actions, a.v),
                 threw |-> FALSE]

roiStep_NoBudgetCheck(acc, allocations, intervention) ==
  IF acc.threw THEN acc
  ELSE LET currentSpend == spendOf(allocations, intervention.id)
           currentAbatement == calculateAbatement(intervention, currentSpend)
           remainingCapacity == Sub(intervention.maxTPerYear, currentAbatement)
           maxAdditionalSpend == Mul(remainingCapacity, intervention.costPerT)
           additionalSpend == MathMin(acc.remainingBudget, maxAdditionalSpend)
           newTotal == Add(currentSpend, additionalSpend)
           a == setAllocation(intervention.id, newTotal)
       IN  IF ~Gt(remainingCapacity, Zero) THEN acc
           ELSE IF ~a.ok THEN [acc EXCEPT !.threw = TRUE]
           ELSE [remainingBudget |-> Sub(acc.remainingBudget, additionalSpend),
                 actions |-> Append(acc.actions, a.v),
                 threw |-> FALSE]

\* the callback of sortedInterventions.forEach (lines 99-113): acc holds
\* remainingBudget, the actions dispatched so far and whether setAllocation
\* threw (the catch of line 115 ends the loop); allocations is the
\* state.allocations the handler closed over
roiStep(acc, allocations, intervention) ==
  IF acc.threw \/ Le(acc.remainingBudget, Zero) THEN acc
  ELSE LET currentSpend == spendOf(allocations, intervention.id)
           currentAbatement == calculateAbatement(intervention, currentSpend)
           remainingCapacity == Sub(intervention.maxTPerYear, currentAbatement)
           maxAdditionalSpend == Mul(remainingCapacity, intervention.costPerT)
           additionalSpend == MathMin(acc.remainingBudget, maxAdditionalSpend)
           newTotal == Add(currentSpend, additionalSpend)
           a == setAllocation(intervention.id, newTotal)
       IN  IF ~Gt(remainingCapacity, Zero) THEN acc
           ELSE IF ~a.ok THEN [acc EXCEPT !.threw = TRUE]
           ELSE [remainingBudget |-> Sub(acc.remainingBudget, additionalSpend),
                 actions |-> Append(acc.actions, a.v),
                 threw |-> FALSE]

\* the forEach over the first k sorted interventions
RECURSIVE roiLoop(_, _, _)
roiLoop(st, sorted, k) ==
  IF k = 0
  THEN LET totalAllocated == sumValues(st.allocations)
       IN  [remainingBudget |-> Sub(st.totalBudget, totalAllocated),
            actions |-> <<>>,
            threw |-> FALSE]
  ELSE roiStep(roiLoop(st, sorted, k - 1), st.allocations, sorted[k])

\* handleDistributeByROI (lines 91-118): the actions it dispatches, in order,
\* and whether it ended in its catch
handleDistributeByROI(st, interventions) ==
  LET sorted == sortedInterventions(interventions)
  IN  roiLoop(st, sorted, Len(sorted))

\* the reducer run over a sequence of dispatched actions
RECURSIVE reduceAll(_, _)
reduceAll(st, actions) ==
  IF actions = <<>> THEN st
  ELSE budgetReducer(reduceAll(st, SubSeq(actions, 1, Len(actions) - 1)),
                     actions[Len(actions)])

\* the state after a click on the fill button of the card of category
afterFill(st, catalog, category) ==
  reduceAll(st, handleDistributeByROI(
                  st, getInterventionsForCategory(catalog, category)).actions)

fillsFromSnapshot_Reread(st, catalog, c1, c2) ==
  afterFill(afterFill(st, catalog, c1), catalog, c2)

\* the handlers of two cards run while both still hold the allocations and
\* totalBudget of the same render (the closure of lines 91-118): the actions
\* of both are computed from st and then reduced in order
fillsFromSnapshot(st, catalog, c1, c2) ==
  reduceAll(st,
    handleDistributeByROI(st, getInterventionsForCategory(catalog, c1)).actions
    \o handleDistributeByROI(st, getInterventionsForCategory(catalog, c2)).actions)

(***************************************************************************)
(* Catalog and input domains                                               *)
(***************************************************************************)
IdA == <<"a">>

IdB == <<"b">>

IdC == <<"c">>

\* a key that validates (its trim is non-empty) but names no intervention
IdPadded == <<" ", "a">>

IdEmpty == <<>>

IdBlank == <<" ", " ">>

interventionsCatalog ==
  << [id |-> IdA, cat |-> "Electricity", costPerT |-> N(30), maxTPerYear |-> N(100)],
     [id |-> IdB, cat |-> "Electricity", costPerT |-> N(80), maxTPerYear |-> N(100)],
     [id |-> IdC, cat |-> "Water", costPerT |-> N(50), maxTPerYear |-> N(200)] >>

CatalogIds == {interventionsCatalog[i].id : i \in 1..Len(interventionsCatalog)}

MaxBudgetSteps == 1

MaxTargetSteps == 1

MaxSpendSteps == 1

MaxAbSpendSteps == 32

InvalidNumbers == {N(-1), NaN, PosInf, NegInf}

\* Number(e.target.value) of a numeric input that fails validation
InvalidEntries == {N(-1), NaN}

BudgetValues == {N(k * 4000) : k \in 0..MaxBudgetSteps}

TargetValues == {N(k * 150) : k \in 0..MaxTargetSteps}

SpendValues == {N(k * 4000) : k \in 0..MaxSpendSteps}

\* valid values typed into a future-budget input
FutureValues == {Zero}

\* the future-budget inputs typed into (first and last of the four)
FutureIndexes == {0, 3}

\* amounts typed into an allocation input: whole, fractional and invalid
AmountValues == SpendValues \cup {<<8001, 2>>} \cup InvalidEntries

FuturePayloads ==
  { <<Zero, Zero, Zero, Zero>>,
    <<Zero, Zero, Zero>>,
    <<Zero, Zero, Zero, Zero, Zero>>,
    <<Zero, N(-1), Zero, Zero>>,
    <<Zero, Zero, NaN, Zero>>,
    <<Zero, Zero, Zero, PosInf>> }

RawIds == {IdA, IdPadded, IdEmpty, IdBlank}

\* every action object a caller can hand to dispatch
ActionInputs ==
  {[type |-> "SET_TOTAL_BUDGET", payload |-> v] :
      v \in BudgetValues \cup InvalidNumbers}
  \cup {[type |-> "SET_TARGET", payload |-> v] :
      v \in TargetValues \cup InvalidNumbers}
  \cup {[type |-> "SET_FUTURE_BUDGETS", payload |-> b] : b \in FuturePayloads}
  \cup {[type |-> "SET_ALLOCATION",
         payload |-> [interventionId |-> id, spend |-> v]] :
      id \in RawIds, v \in SpendValues \cup InvalidNumbers}
  \cup {resetAllAllocations, [type |-> "UNKNOWN"]}

MaxDerivedSpendSteps == 2

\* catalogs handed to the derived-value computations: the first entry takes
\* valid and invalid costPerT and maxTPerYear, and a costPerT equal to that
\* of the third entry
DerivedCatalogs ==
  { << [id |-> IdA, cat |-> "Electricity", costPerT |-> c, maxTPerYear |-> m],
       [id |-> IdB, cat |-> "Electricity", costPerT |-> N(80), maxTPerYear |-> N(100)],
       [id |-> IdC, cat |-> "Water", costPerT |-> N(50), maxTPerYear |-> N(200)] >> :
      c \in {N(30), N(50), Zero, N(-5)}, m \in {N(100), N(-5)} }

\* spends found in an allocations object handed to a computation
DerivedSpends ==
  {N(k * 4000) : k \in 1..MaxDerivedSpendSteps} \cup {N(-1), NaN, PosInf}

DerivedAllocations ==
  UNION {[ids -> DerivedSpends] : ids \in SUBSET CatalogIds}

DerivedBudgets == {N(4000), N(-1), NaN}

DerivedTargets == {N(150), N(-1), PosInf}

AbInterventions ==
  {[id |-> IdA, cat |-> "Electricity", costPerT |-> c, maxTPerYear |-> m] :
      c \in {N(-5), Zero, <<5, 2>>, N(30), N(50), N(80)},
      m \in {N(-1), Zero, N(100), N(200)}}

AbSpends ==
  {N(k * 500) : k \in (-2)..MaxAbSpendSteps}
  \cup {<<1, 3>>, <<20001, 2>>, NaN, PosInf, NegInf}

(***************************************************************************)
(* State                                                                   *)
(***************************************************************************)
VARIABLES
  state,    \* the BudgetState held by useReducer
  outcome,  \* what the last event did: init, applied (the reducer produced
            \* a new state), cleared (applied through the delete branch of
            \* SET_ALLOCATION), rejected, thrown, caught, ignored, filled (ROI fill)
  logged,   \* the last event called console.error
  pc,       \* "store" for the dashboard, "call"/"done" for a function call
  fnIn,     \* arguments of the function call
  fnOut     \* results of the function call

vars == <<state, outcome, logged, pc, fnIn, fnOut>>

Init ==
  /\ state = initialState
  /\ outcome = "init"
  /\ logged = FALSE
  /\ pc = "store"
  /\ fnIn = <<>>
  /\ fnOut = <<>>

\* dispatch(action): useReducer runs budgetReducer on the current state
dispatch(action) ==
  LET validation == validateAction(action)
  IN  /\ state' = budgetReducer(state, action)
      /\ outcome' = IF ~validation.isValid THEN "rejected"
                    ELSE IF action.type = "SET_ALLOCATION"
                            /\ StrictEq(action.payload.spend, Zero)
                         THEN "cleared"
                    ELSE "applied"
      /\ logged' = ~validation.isValid

\* an action creator threw and nothing caught it
uncaught ==
  /\ outcome' = "thrown"
  /\ logged' = FALSE
  /\ UNCHANGED state

\* an action creator threw inside try/catch: console.error, no dispatch
caught ==
  /\ outcome' = "caught"
  /\ logged' = TRUE
  /\ UNCHANGED state

\* a handler's guard was false: nothing happens
ignored ==
  /\ outcome' = "ignored"
  /\ logged' = FALSE
  /\ UNCHANGED state

\* any caller dispatching an action object directly
Dispatch ==
  /\ pc = "store"
  /\ \E action \in ActionInputs : dispatch(action)
  /\ UNCHANGED <<pc, fnIn, fnOut>>

\* HeaderInputs.handleBudgetChange
HeaderBudgetChange ==
  /\ pc = "store"
  /\ \E value \in BudgetValues \cup InvalidEntries :
        LET a == setTotalBudget(value)
        IN  IF a.ok THEN dispatch(a.v) ELSE uncaught
  /\ UNCHANGED <<pc, fnIn, fnOut>>

\* HeaderInputs.handleTargetChange
HeaderTargetChange ==
  /\ pc = "store"
  /\ \E value \in TargetValues \cup InvalidEntries :
        LET a == setTarget(value)
        IN  IF a.ok THEN dispatch(a.v) ELSE uncaught
  /\ UNCHANGED <<pc, fnIn, fnOut>>

\* HeaderInputs.handleFutureBudgetChange
HeaderFutureBudgetChange ==
  /\ pc = "store"
  /\ \E index \in FutureIndexes, value \in FutureValues \cup InvalidEntries :
        LET newBudgets == [state.futureBudgets EXCEPT ![index + 1] = value]
            a == setFutureBudgets(newBudgets)
        IN  IF a.ok THEN dispatch(a.v) ELSE uncaught
  /\ UNCHANGED <<pc, fnIn, fnOut>>

\* TopInputs.handleBudgetSliderChange
TopBudgetSliderChange ==
  /\ pc = "store"
  /\ \E value \in BudgetValues \cup InvalidEntries :
        IF isFinite(value) /\ Ge(value, Zero)
        THEN LET a == setTotalBudget(value)
             IN  IF a.ok THEN dispatch(a.v) ELSE uncaught
        ELSE ignored
  /\ UNCHANGED <<pc, fnIn, fnOut>>

\* TopInputs.handleTargetChange
TopTargetChange ==
  /\ pc = "store"
  /\ \E value \in TargetValues \cup InvalidEntries :
        IF isFinite(value) /\ Ge(value, Zero)
        THEN LET a == setTarget(value)
             IN  IF a.ok THEN dispatch(a.v) ELSE uncaught
        ELSE ignored
  /\ UNCHANGED <<pc, fnIn, fnOut>>

\* TopInputs.handleFutureBudgetChange
TopFutureBudgetChange ==
  /\ pc = "store"
  /\ \E index \in FutureIndexes \cup {-1, 4},
        value \in FutureValues \cup InvalidEntries :
        IF index >= 0 /\ index < 4 /\ isFinite(value) /\ Ge(value, Zero)
        THEN LET newBudgets == [state.futureBudgets EXCEPT ![index + 1] = value]
                 a == setFutureBudgets(newBudgets)
             IN  IF a.ok THEN dispatch(a.v) ELSE uncaught
        ELSE ignored
  /\ UNCHANGED <<pc, fnIn, fnOut>>

\* CategoryCard.handleAllocationChange
AllocationChange ==
  /\ pc = "store"
  /\ \E interventionId \in CatalogIds, amount \in AmountValues :
        LET cleanAmount == MathMax(Zero, MathFloor(amount))
            a == setAllocation(interventionId, cleanAmount)
        IN  IF a.ok THEN dispatch(a.v) ELSE caught
  /\ UNCHANGED <<pc, fnIn, fnOut>>

Next ==
  \/ Dispatch
  \/ HeaderBudgetChange
  \/ HeaderTargetChange
  \/ HeaderFutureBudgetChange
  \/ TopBudgetSliderChange
  \/ TopTargetChange
  \/ TopFutureBudgetChange
  \/ AllocationChange

Spec == Init /\ [][Next]_vars

(***************************************************************************)
(* Calls of calculateInterventionAbatement on drawn arguments              *)
(***************************************************************************)
InitAbatement ==
  /\ state = initialState
  /\ outcome = "init"
  /\ logged = FALSE
  /\ pc = "call"
  /\ fnIn \in [intervention : AbInterventions, s1 : AbSpends, s2 : AbSpends]
  /\ fnOut = <<>>

CallAbatement ==
  /\ pc = "call"
  /\ fnOut' = << calculateInterventionAbatement(fnIn.intervention, fnIn.s1),
                 calculateInterventionAbatement(fnIn.intervention, fnIn.s2) >>
  /\ pc' = "done"
  /\ UNCHANGED <<state, outcome, logged, fnIn>>

NextAbatement == CallAbatement

SpecAbatement == InitAbatement /\ [][NextAbatement]_vars

(***************************************************************************)
(* The allocation cards: budget slider, allocation inputs and ROI fill     *)
(***************************************************************************)
\* CategoryCard.handleDistributeByROI, clicked on the card of a category
DistributeByROI ==
  /\ pc = "store"
  /\ \E cat \in Categories :
        LET interventions == getInterventionsForCategory(interventionsCatalog, cat)
            fill == handleDistributeByROI(state, interventions)
        IN  /\ canDistribute(state, interventions)
            /\ state' = reduceAll(state, fill.actions)
            /\ outcome' = IF fill.threw THEN "caught" ELSE "filled"
            /\ logged' = fill.threw
  /\ UNCHANGED <<pc, fnIn, fnOut>>

NextROI ==
  \/ TopBudgetSliderChange
  \/ AllocationChange
  \/ DistributeByROI

SpecROI == Init /\ [][NextROI]_vars

(***************************************************************************)
(* The derived values: metrics, MACC rows, category shares, card totals    *)
(***************************************************************************)
InitDerived ==
  /\ state = initialState
  /\ outcome = "init"
  /\ logged = FALSE
  /\ pc = "call"
  /\ fnIn \in [catalog : DerivedCatalogs, allocations : DerivedAllocations,
               totalBudget : DerivedBudgets, targetT : DerivedTargets]
  /\ fnOut = <<>>

CallComputePortfolioMetrics ==
  /\ pc = "call"
  /\ fnOut' = [fn |-> "computePortfolioMetrics",
               result |-> computePortfolioMetrics(fnIn.catalog, fnIn.allocations,
                                                  fnIn.totalBudget, fnIn.targetT)]
  /\ pc' = "done"
  /\ UNCHANGED <<state, outcome, logged, fnIn>>

CallFundedRows ==
  /\ pc = "call"
  /\ fnOut' = [fn |-> "fundedRows",
               result |-> fundedRows(fnIn.catalog, fnIn.allocations)]
  /\ pc' = "done"
  /\ UNCHANGED <<state, outcome, logged, fnIn>>

CallCategoryData ==
  /\ pc = "call"
  /\ fnOut' = [fn |-> "categoryData",
               result |-> categoryData(fnIn.catalog, fnIn.allocations)]
  /\ pc' = "done"
  /\ UNCHANGED <<state, outcome, logged, fnIn>>

\* the body of CategoryCard up to its totals (lines 28-73), in a development
\* build (import.meta.env.DEV) or a production build
RenderCategoryCard ==
  /\ pc = "call"
  /\ \E cat \in Categories, dev \in BOOLEAN :
        LET interventions == getInterventionsForCategory(fnIn.catalog, cat)
            props == [cat |-> cat, interventions |-> interventions]
        IN  /\ interventions # <<>>
            /\ fnOut' = [fn |-> "CategoryCard",
                         cat |-> cat,
                         dev |-> dev,
                         result |->
                           IF dev /\ ~validateProps(props).ok
                           THEN validateProps(props)
                           ELSE Ret(cardTotals(interventions, fnIn.allocations))]
  /\ pc' = "done"
  /\ UNCHANGED <<state, outcome, logged, fnIn>>

\* the store state whose allocations and budget the computations were handed
snapshot ==
  [totalBudget |-> fnIn.totalBudget,
   targetT |-> fnIn.targetT,
   futureBudgets |-> FutureDefaults,
   allocations |-> fnIn.allocations]

\* handleDistributeByROI of the cards of two categories, both run on the
\* state of the same render
CallDistributeFromSnapshot ==
  /\ pc = "call"
  /\ \E c1, c2 \in Categories :
        /\ getInterventionsForCategory(fnIn.catalog, c1) # <<>>
        /\ getInterventionsForCategory(fnIn.catalog, c2) # <<>>
        /\ fnOut' = [fn |-> "handleDistributeByROI",
                     cats |-> <<c1, c2>>,
                     result |-> fillsFromSnapshot(snapshot, fnIn.catalog, c1, c2)]
  /\ pc' = "done"
  /\ UNCHANGED <<state, outcome, logged, fnIn>>

NextDerived ==
  \/ CallComputePortfolioMetrics
  \/ CallFundedRows
  \/ CallCategoryData
  \/ RenderCategoryCard
  \/ CallDistributeFromSnapshot

SpecDerived == InitDerived /\ [][NextDerived]_vars

(***************************************************************************)
(* The loop of handleDistributeByROI, one intervention per step            *)
(***************************************************************************)
InitFillLoop ==
  /\ state = initialState
  /\ outcome = "init"
  /\ logged = FALSE
  /\ pc = "idle"
  /\ fnIn = <<>>
  /\ fnOut = <<>>

\* a click on the fill button of a card: the handler starts on the state of
\* its render, with no intervention visited yet
FillLoopStart ==
  /\ pc = "idle"
  /\ fnIn' \in [catalog : DerivedCatalogs, allocations : DerivedAllocations,
                totalBudget : DerivedBudgets, targetT : {N(150)},
                cat : {"Electricity", "Water"}]
  /\ fnOut' = [k |-> 0]
  /\ pc' = "loop"
  /\ UNCHANGED <<state, outcome, logged>>

\* the array the forEach of line 99 walks
loopInterventions ==
  sortedInterventions(getInterventionsForCategory(fnIn.catalog, fnIn.cat))

\* its length: sorting a copy keeps the number of interventions
loopLength == Len(getInterventionsForCategory(fnIn.catalog, fnIn.cat))

\* remainingBudget, the actions dispatched and whether the catch was entered
\* once the callback has run on the first fnOut.k interventions
loopAcc == roiLoop(snapshot, loopInterventions, fnOut.k)

nextIndex_Stuck(k) == k

\* Array.prototype.forEach moves on to the next element after each callback
nextIndex(k) == k + 1

\* one call of the forEach callback (lines 99-113)
FillLoopStep ==
  /\ pc = "loop"
  /\ fnOut.k < loopLength
  /\ fnOut' = [k |-> nextIndex(fnOut.k)]
  /\ UNCHANGED <<state, outcome, logged, pc, fnIn>>

\* forEach has walked the array: the handler returns
FillLoopEnd ==
  /\ pc = "loop"
  /\ fnOut.k >= loopLength
  /\ pc' = "done"
  /\ UNCHANGED <<state, outcome, logged, fnIn, fnOut>>

NextFillLoop ==
  \/ FillLoopStart
  \/ FillLoopStep
  \/ FillLoopEnd

\* an event handler runs to completion: a step that can be taken is taken
SpecFillLoop == InitFillLoop /\ [][NextFillLoop]_vars /\ WF_vars(NextFillLoop)

(***************************************************************************)
(* The memoised values of KPIs, MACC and BudgetByCategory across renders   *)
(***************************************************************************)
\* KPIs.portfolioMetrics: the metrics, or the fallback of the catch
portfolioMetrics(st) ==
  LET m == computePortfolioMetrics(interventionsCatalog, st.allocations,
                                   st.totalBudget, st.targetT)
  IN  IF m.ok THEN m
      ELSE [ok |-> TRUE,
            portfolioSpend |-> Zero,
            portfolioAbatement |-> Zero,
            portfolioCostPerT |-> Zero,
            gapToTarget |-> st.targetT,
            budgetUtilisation |-> Zero]

\* KPIs.derivedMetrics: target progress and remaining budget, or the
\* fallback of the catch
derivedMetrics(st) ==
  LET m == portfolioMetrics(st)
      targetProgress == calculateTargetProgress(m.portfolioAbatement, st.targetT)
      efficiencyScore == calculateEfficiencyScore(m.portfolioCostPerT)
  IN  IF targetProgress.ok /\ efficiencyScore.ok
        THEN [targetProgress |-> targetProgress.v,
              efficiencyScore |-> efficiencyScore.v,
              remainingBudget |-> Sub(st.totalBudget, m.portfolioSpend)]
        ELSE [targetProgress |-> Zero,
              efficiencyScore |-> "poor",
              remainingBudget |-> st.totalBudget]

\* the reducer returns a state with a new allocations object (lines 150-171);
\* every other case keeps the object of the previous state
allocationsReplaced(action) ==
  /\ validateAction(action).isValid
  /\ action.type \in {"SET_ALLOCATION", "RESET_ALL_ALLOCATIONS"}

metricsDepsChanged_NoTarget(old, new, replaced) ==
  replaced \/ new.totalBudget # old.totalBudget

\* [state.allocations, state.totalBudget, state.targetT] (KPIs.tsx line 39)
metricsDepsChanged(old, new, replaced) ==
  replaced \/ new.totalBudget # old.totalBudget \/ new.targetT # old.targetT

\* [state.allocations] (MACC.tsx line 41, BudgetByCategory.tsx line 71)
allocationsDepsChanged(old, new, replaced) == replaced

\* useMemo: the held value unless a dependency changed
useMemo(held, recomputed, depsChanged) ==
  IF depsChanged THEN recomputed ELSE held

\* the three memoised values after the first render
InitMemo ==
  /\ state = initialState
  /\ outcome = "init"
  /\ logged = FALSE
  /\ pc = "store"
  /\ fnIn = <<>>
  /\ fnOut = [portfolioMetrics |-> portfolioMetrics(initialState),
              fundedRows |-> fundedRows(interventionsCatalog, NoAllocations),
              categoryData |-> categoryData(interventionsCatalog, NoAllocations)]

\* actions reaching the reducer: raw action objects and the setAllocation
\* actions of the allocation inputs
MemoActions ==
  ActionInputs
  \cup {[type |-> "SET_ALLOCATION",
         payload |-> [interventionId |-> id, spend |-> v]] :
          id \in CatalogIds, v \in SpendValues}

\* a dispatch followed by the render it causes
DispatchAndRender ==
  /\ pc = "store"
  /\ \E action \in MemoActions :
        LET new == budgetReducer(state, action)
            replaced == allocationsReplaced(action)
        IN  /\ dispatch(action)
            /\ fnOut' =
                 [portfolioMetrics |->
                    useMemo(fnOut.portfolioMetrics, portfolioMetrics(new),
                            metricsDepsChanged(state, new, replaced)),
                  fundedRows |->
                    useMemo(fnOut.fundedRows,
                            fundedRows(interventionsCatalog, new.allocations),
                            allocationsDepsChanged(state, new, replaced)),
                  categoryData |->
                    useMemo(fnOut.categoryData,
                            categoryData(interventionsCatalog, new.allocations),
                            allocationsDepsChanged(state, new, replaced))]
  /\ UNCHANGED <<pc, fnIn>>

NextMemo == DispatchAndRender

SpecMemo == InitMemo /\ [][NextMemo]_vars

(***************************************************************************)
(* Properties                                                              *)
(***************************************************************************)
\* the metrics every component derives from the current state
metrics ==
  computePortfolioMetrics(interventionsCatalog, state.allocations,
                          state.totalBudget, state.targetT)

validIntervention(i) == Gt(i.costPerT, Zero) /\ Gt(i.maxTPerYear, Zero)

\* C1: for a valid intervention and a finite spend the abatement is 0 when
\* spend <= 0, spend / costPerT below the ceiling cost and maxTPerYear from
\* the ceiling cost costPerT * maxTPerYear upwards (cost 50, max 200:
\* 5000 gives 100, 15000 gives 200).
C1_AbatementValue ==
  (pc = "done" /\ validIntervention(fnIn.intervention) /\ isFinite(fnIn.s1)) =>
    LET i == fnIn.intervention
        s == fnIn.s1
        r == fnOut[1]
        ceilingCost == Mul(i.costPerT, i.maxTPerYear)
    IN  /\ r.ok
        /\ Le(s, Zero) => r.v = Zero
        /\ (Gt(s, Zero) /\ Lt(s, ceilingCost)) => Mul(r.v, i.costPerT) = s
        /\ Ge(s, ceilingCost) => r.v = i.maxTPerYear
        /\ (i.costPerT = N(50) /\ i.maxTPerYear = N(200) /\ s = N(5000))
              => r.v = N(100)
        /\ (i.costPerT = N(50) /\ i.maxTPerYear = N(200) /\ s = N(15000))
              => r.v = N(200)

C1_Witness ==
  /\ pc = "done"
  /\ fnIn.intervention.costPerT = N(50)
  /\ fnIn.intervention.maxTPerYear = N(200)
  /\ fnIn.s1 = N(15000)
  /\ fnOut[1] = Ret(N(200))

\* C2: for a valid intervention and finite spends s1 <= s2 the abatement of
\* s1 is at most the abatement of s2, and both lie in [0, maxTPerYear].
C2_AbatementMonotone ==
  (pc = "done" /\ validIntervention(fnIn.intervention)
     /\ isFinite(fnIn.s1) /\ isFinite(fnIn.s2) /\ Le(fnIn.s1, fnIn.s2)) =>
    /\ fnOut[1].ok /\ fnOut[2].ok
    /\ Le(fnOut[1].v, fnOut[2].v)
    /\ \A k \in 1..2 :
          /\ Le(Zero, fnOut[k].v)
          /\ Le(fnOut[k].v, fnIn.intervention.maxTPerYear)

C2_Witness ==
  /\ pc = "done"
  /\ validIntervention(fnIn.intervention)
  /\ Lt(fnIn.s1, Zero)
  /\ Gt(fnIn.s2, Zero)
  /\ fnOut[1].ok /\ fnOut[2].ok
  /\ Lt(fnOut[1].v, fnOut[2].v)
  /\ Lt(fnOut[2].v, fnIn.intervention.maxTPerYear)

\* C3: portfolioSpend and portfolioAbatement are sums over the catalog
\* interventions (spend 0 when the id has no allocation); an allocation
\* key that is no catalog id contributes to neither total.
C3_CatalogTotals ==
  LET m == metrics
      RECURSIVE spendSum(_), abatementSum(_)
      spendSum(ids) ==
        IF ids = {} THEN Zero
        ELSE LET id == CHOOSE x \in ids : TRUE
             IN  Add(IF id \in DOMAIN state.allocations
                     THEN state.allocations[id] ELSE Zero,
                     spendSum(ids \ {id}))
      abatementSum(is) ==
        IF is = {} THEN Zero
        ELSE LET i == CHOOSE x \in is : TRUE
             IN  Add(calculateInterventionAbatement(
                       i, IF i.id \in DOMAIN state.allocations
                          THEN state.allocations[i.id] ELSE Zero).v,
                     abatementSum(is \ {i}))
      entries == {interventionsCatalog[k] : k \in 1..Len(interventionsCatalog)}
      inCatalog == [id \in DOMAIN state.allocations \cap CatalogIds |->
                      state.allocations[id]]
  IN  /\ m.ok
      /\ m.portfolioSpend = spendSum(CatalogIds)
      /\ m.portfolioAbatement = abatementSum(entries)
      /\ m = computePortfolioMetrics(interventionsCatalog, inCatalog,
                                     state.totalBudget, state.targetT)

C3_Witness ==
  LET m == metrics
  IN  /\ IdPadded \in DOMAIN state.allocations
      /\ IdA \in DOMAIN state.allocations
      /\ IdC \notin DOMAIN state.allocations
      /\ m.ok
      /\ Lt(m.portfolioSpend, sumValues(state.allocations))
      /\ Gt(m.portfolioAbatement, Zero)

\* C4: gapToTarget is never negative, is 0 whenever portfolioAbatement >=
\* targetT and is targetT - portfolioAbatement otherwise.
C4_GapToTarget ==
  LET m == metrics
  IN  /\ m.ok
      /\ ~Lt(m.gapToTarget, Zero)
      /\ Ge(m.portfolioAbatement, state.targetT)
            => m.gapToTarget = Zero
      /\ Lt(m.portfolioAbatement, state.targetT)
            => Add(m.gapToTarget, m.portfolioAbatement) = state.targetT

C4_Witness ==
  LET m == metrics
  IN  /\ outcome = "applied"
      /\ m.ok
      /\ Gt(state.targetT, Zero)
      /\ Gt(m.portfolioAbatement, state.targetT)
      /\ m.gapToTarget = Zero

\* C5: no metric is NaN or infinite; portfolioCostPerT is 0 whenever
\* portfolioAbatement is 0 and budgetUtilisation is 0 whenever totalBudget
\* is 0.
C5_NoDivisionByZero ==
  LET m == metrics
  IN  /\ m.ok
      /\ isFinite(m.portfolioSpend)
      /\ isFinite(m.portfolioAbatement)
      /\ isFinite(m.portfolioCostPerT)
      /\ isFinite(m.gapToTarget)
      /\ isFinite(m.budgetUtilisation)
      /\ m.portfolioAbatement = Zero => m.portfolioCostPerT = Zero
      /\ state.totalBudget = Zero => m.budgetUtilisation = Zero

C5_Witness ==
  LET m == metrics
  IN  /\ outcome = "applied"
      /\ state.totalBudget = Zero
      /\ m.ok
      /\ m.portfolioSpend = Zero
      /\ m.portfolioAbatement = Zero
      /\ m.portfolioCostPerT = Zero
      /\ m.budgetUtilisation = Zero

\* C6: overspend is never clamped: a setAllocation with a non-negative
\* finite spend and a setTotalBudget with a non-negative finite amount are
\* applied as entered whatever the resulting sum of allocations, and
\* budgetUtilisation is above 100 whenever portfolioSpend > totalBudget > 0.
C6_OverspendNotClamped ==
  LET m == metrics
  IN  /\ \A a \in ActionInputs :
            (a.type = "SET_ALLOCATION" /\ Len(trim(a.payload.interventionId)) > 0
               /\ isFinite(a.payload.spend) /\ Gt(a.payload.spend, Zero)) =>
              LET after == budgetReducer(state, a).allocations
              IN  /\ a.payload.interventionId \in DOMAIN after
                  /\ after[a.payload.interventionId] = a.payload.spend
                  /\ \A id \in DOMAIN state.allocations \ {a.payload.interventionId} :
                        id \in DOMAIN after /\ after[id] = state.allocations[id]
      /\ \A a \in ActionInputs :
            (a.type = "SET_TOTAL_BUDGET" /\ isFinite(a.payload)
               /\ Ge(a.payload, Zero)) =>
              /\ budgetReducer(state, a).totalBudget = a.payload
              /\ budgetReducer(state, a).allocations = state.allocations
      /\ m.ok
      /\ (Gt(m.portfolioSpend, state.totalBudget)
            /\ Gt(state.totalBudget, Zero))
            => Gt(m.budgetUtilisation, Hundred)

C6_Witness ==
  LET m == metrics
  IN  /\ outcome = "applied"
      /\ Gt(state.totalBudget, Zero)
      /\ m.ok
      /\ Gt(m.portfolioSpend, state.totalBudget)
      /\ Gt(m.budgetUtilisation, Hundred)

\* C7 as stated: the initial state has a non-zero totalBudget and target,
\* four future budgets equal to zero and no allocations, and its metrics
\* are portfolioAbatement 0, gapToTarget 3000 and budgetUtilisation 0.
C7_InitialStateZeroFutures ==
  LET m == metrics
  IN  outcome = "init" =>
        /\ state.totalBudget = N(500000)
        /\ state.targetT = N(3000)
        /\ Len(state.futureBudgets) = 4
        /\ \A i \in 1..Len(state.futureBudgets) : state.futureBudgets[i] = Zero
        /\ DOMAIN state.allocations = {}
        /\ m.ok
        /\ m.portfolioAbatement = Zero
        /\ m.gapToTarget = N(3000)
        /\ m.budgetUtilisation = Zero

\* C7 (amended): the initial state has totalBudget 500000, target 3000,
\* the four future budgets 450000, 400000, 350000 and 300000 (none of them
\* zero) and no allocations, and its metrics are portfolioAbatement 0,
\* gapToTarget 3000 and budgetUtilisation 0.
C7_InitialState ==
  LET m == metrics
  IN  outcome = "init" =>
        /\ state.totalBudget = N(500000)
        /\ state.targetT = N(3000)
        /\ state.futureBudgets = <<N(450000), N(400000), N(350000), N(300000)>>
        /\ DOMAIN state.allocations = {}
        /\ m.ok
        /\ m.portfolioAbatement = Zero
        /\ m.gapToTarget = N(3000)
        /\ m.budgetUtilisation = Zero

C7_Witness ==
  LET m == metrics
  IN  /\ outcome = "init"
      /\ m.ok
      /\ m.gapToTarget = state.targetT
      /\ \A i \in 1..4 : Gt(state.futureBudgets[i], Zero)

\* C8: the allocations map never holds an entry whose spend is 0 (every
\* retained spend is strictly positive), and setAllocation(id, 0) removes
\* the entry of id.
C8_NoZeroEntries ==
  /\ \A id \in DOMAIN state.allocations : Gt(state.allocations[id], Zero)
  /\ \A id \in RawIds \cup CatalogIds :
        LET a == setAllocation(id, Zero)
        IN  a.ok => a.v.payload.interventionId
                      \notin DOMAIN budgetReducer(state, a.v).allocations

C8_Witness ==
  /\ outcome = "cleared"
  /\ IdA \notin DOMAIN state.allocations
  /\ IdB \in DOMAIN state.allocations
  /\ IdPadded \in DOMAIN state.allocations

\* C9: an action that fails validation (negative or non-finite budget,
\* target, future budget or spend; future budgets not of length 4; empty or
\* whitespace-only intervention id) leaves the whole state unchanged.
C9_InvalidLeavesState ==
  LET bad(x) == ~isFinite(x) \/ Lt(x, Zero)
      blank(id) == \A k \in 1..Len(id) : id[k] = " "
      invalid(a) ==
        \/ a.type \in {"SET_TOTAL_BUDGET", "SET_TARGET"} /\ bad(a.payload)
        \/ a.type = "SET_FUTURE_BUDGETS"
             /\ (Len(a.payload) # 4
                   \/ \E k \in 1..Len(a.payload) : bad(a.payload[k]))
        \/ a.type = "SET_ALLOCATION"
             /\ (bad(a.payload.spend) \/ blank(a.payload.interventionId))
  IN  \A a \in ActionInputs : invalid(a) => budgetReducer(state, a) = state

C9_Witness ==
  /\ outcome = "rejected"
  /\ logged
  /\ state.totalBudget # initialState.totalBudget
  /\ state.futureBudgets # initialState.futureBudgets
  /\ DOMAIN state.allocations # {}

\* C10: a state mutator called with an invalid argument never raises an
\* exception to the event handler that called it.
C10_NeverThrown == outcome # "thrown"

\* C11: every state reached from the initial state by dispatched actions is
\* valid: totalBudget >= 0, targetT >= 0, futureBudgets has exactly 4
\* entries each >= 0, and every allocation has a non-empty id and a finite
\* non-negative spend.
C11_StateValid ==
  LET finiteNonNeg(x) == x[2] > 0 /\ x[1] >= 0
  IN  /\ finiteNonNeg(state.totalBudget)
      /\ finiteNonNeg(state.targetT)
      /\ Len(state.futureBudgets) = 4
      /\ \A i \in 1..Len(state.futureBudgets) :
            finiteNonNeg(state.futureBudgets[i])
      /\ \A id \in DOMAIN state.allocations :
            /\ \E k \in 1..Len(id) : id[k] # " "
            /\ finiteNonNeg(state.allocations[id])

C11_Witness ==
  /\ outcome = "rejected"
  /\ state.totalBudget = Zero
  /\ state.targetT = Zero
  /\ state.futureBudgets = <<Zero, Zero, Zero, Zero>>
  /\ IdPadded \in DOMAIN state.allocations
  /\ IdA \in DOMAIN state.allocations

\* the catalog and the allocations handed to a computation are those of a
\* valid dashboard: every catalog entry passes validateIntervention and
\* every stored spend is finite and non-negative
validInputs ==
  /\ \A k \in 1..Len(fnIn.catalog) : validateIntervention(fnIn.catalog[k]).isValid
  /\ \A id \in DOMAIN fnIn.allocations :
        isFinite(fnIn.allocations[id]) /\ Ge(fnIn.allocations[id], Zero)

\* C12: with a valid catalog and valid allocations, the MACC ranking holds
\* exactly one row for every catalog intervention whose spend is greater
\* than 0 and no other row; the rows are in non-decreasing order of costPerT
\* and rows of equal costPerT keep their catalog order.
C12_MaccRanking ==
  (pc = "done" /\ fnOut.fn = "fundedRows" /\ validInputs) =>
    LET rows == fnOut.result
        catalog == fnIn.catalog
        funded == {k \in 1..Len(catalog) :
                     /\ catalog[k].id \in DOMAIN fnIn.allocations
                     /\ fnIn.allocations[catalog[k].id][1] > 0}
        indexOf(r) == CHOOSE k \in 1..Len(catalog) :
                        catalog[k].id = rows[r].interventionId
    IN  /\ Len(rows) = Cardinality(funded)
        /\ \A k \in funded :
              \E r \in 1..Len(rows) :
                 /\ rows[r].interventionId = catalog[k].id
                 /\ rows[r].costPerT = catalog[k].costPerT
                 /\ rows[r].spend = fnIn.allocations[catalog[k].id]
        /\ \A r, s \in 1..Len(rows) :
              r < s =>
                /\ Le(rows[r].costPerT, rows[s].costPerT)
                /\ rows[r].costPerT = rows[s].costPerT => indexOf(r) < indexOf(s)

C12_Witness ==
  /\ pc = "done"
  /\ fnOut.fn = "fundedRows"
  /\ validInputs
  /\ DOMAIN fnIn.allocations = CatalogIds
  /\ Len(fnOut.result) = 3
  /\ fnOut.result[1].interventionId = IdA
  /\ fnOut.result[2].interventionId = IdC
  /\ fnOut.result[3].interventionId = IdB
  /\ fnOut.result[1].costPerT = fnOut.result[2].costPerT

\* C13: with a valid catalog and valid allocations, the category breakdown
\* holds exactly one entry for every category whose summed catalog spend is
\* greater than 0, in descending order of spend, and the percentages of its
\* entries sum to 100 whenever the total spend is greater than 0.
C13_CategoryBreakdown ==
  (pc = "done" /\ fnOut.fn = "categoryData" /\ validInputs) =>
    LET data == fnOut.result
        catalog == fnIn.catalog
        spendIn(cat) ==
          sumValues([id \in {catalog[k].id : k \in {j \in 1..Len(catalog) :
                                                      catalog[j].cat = cat}}
                           \cap DOMAIN fnIn.allocations |->
                       fnIn.allocations[id]])
        spending == {cat \in Categories : spendIn(cat)[1] > 0}
        RECURSIVE sumPercent(_)
        sumPercent(n) ==
          IF n = 0 THEN Zero ELSE Add(sumPercent(n - 1), data[n].percentage)
    IN  /\ Len(data) = Cardinality(spending)
        /\ \A cat \in spending :
              \E r \in 1..Len(data) :
                 data[r].category = cat /\ data[r].spend = spendIn(cat)
        /\ \A r, s \in 1..Len(data) : r < s => Ge(data[r].spend, data[s].spend)
        /\ spending # {} => sumPercent(Len(data)) = Hundred

C13_Witness ==
  /\ pc = "done"
  /\ fnOut.fn = "categoryData"
  /\ validInputs
  /\ Len(fnOut.result) = 2
  /\ fnOut.result[1].category = "Water"
  /\ fnOut.result[1].percentage = <<200, 3>>
  /\ fnOut.result[2].category = "Electricity"
  /\ fnOut.result[2].percentage = <<100, 3>>

\* the catalog entries of a category, read off the catalog directly
inCategory(cat) ==
  {k \in 1..Len(interventionsCatalog) : interventionsCatalog[k].cat = cat}

\* the spend stored for an id, 0 when there is none
stored(allocations, id) ==
  IF id \in DOMAIN allocations THEN allocations[id] ELSE Zero

\* C14: an ROI fill never reduces an existing allocation: the spend of
\* every intervention after the fill is at least its spend before the fill,
\* including entries already above their saturation spend.
C14_FillNeverReduces ==
  \A cat \in Categories :
    LET after == afterFill(state, interventionsCatalog, cat)
    IN  \A id \in DOMAIN state.allocations :
           /\ id \in DOMAIN after.allocations
           /\ Ge(after.allocations[id], state.allocations[id])

C14_Witness ==
  /\ outcome = "filled"
  /\ stored(state.allocations, IdA) = N(4000)
  /\ stored(state.allocations, IdB) = N(8000)

\* C15: an ROI fill of one category changes only allocations of that
\* category: the spend of every intervention of another category,
\* totalBudget, targetT and futureBudgets are unchanged.
C15_FillFrame ==
  \A cat \in Categories :
    LET after == afterFill(state, interventionsCatalog, cat)
        own == {interventionsCatalog[k].id : k \in inCategory(cat)}
    IN  /\ after.totalBudget = state.totalBudget
        /\ after.targetT = state.targetT
        /\ after.futureBudgets = state.futureBudgets
        /\ \A id \in (DOMAIN state.allocations \cup DOMAIN after.allocations) \ own :
              /\ id \in DOMAIN state.allocations
              /\ id \in DOMAIN after.allocations
              /\ after.allocations[id] = state.allocations[id]

C15_Witness ==
  /\ outcome = "filled"
  /\ stored(state.allocations, IdA) = N(3000)
  /\ stored(state.allocations, IdB) = N(8000)
  /\ stored(state.allocations, IdC) = N(4000)

C17_FillsWithinBudget ==
  Le(sumValues(state.allocations), state.totalBudget) =>
    \A c1, c2 \in Categories :
      LET first == afterFill(state, interventionsCatalog, c1)
          second == afterFill(first, interventionsCatalog, c2)
      IN  /\ Le(sumValues(first.allocations), state.totalBudget)
          /\ Le(sumValues(second.allocations), state.totalBudget)

C17_Witness ==
  /\ outcome = "filled"
  /\ state.totalBudget = N(500000)
  /\ stored(state.allocations, IdA) = N(3000)
  /\ stored(state.allocations, IdB) = N(8000)
  /\ stored(state.allocations, IdC) = N(10000)

\* C18: each mutator changes only its own part of the state:
\* resetAllAllocations empties allocations and leaves totalBudget, targetT
\* and futureBudgets; setTotalBudget, setTarget and setFutureBudgets leave
\* allocations and the two other fields; setAllocation(id, s) leaves the
\* spend of every other intervention and the three other fields.
C18_MutatorFrames ==
  LET sameBut(after, fields) ==
        \A f \in {"totalBudget", "targetT", "futureBudgets", "allocations"} \ fields :
           after[f] = state[f]
      created ==
        {setTotalBudget(v) : v \in BudgetValues \cup InvalidNumbers}
        \cup {setTarget(v) : v \in TargetValues \cup InvalidNumbers}
        \cup {setFutureBudgets(b) : b \in FuturePayloads}
        \cup {setAllocation(id, v) : id \in RawIds \cup CatalogIds,
                                     v \in SpendValues \cup InvalidNumbers}
        \cup {Ret(resetAllAllocations)}
  IN  \A a \in {Ret(x) : x \in ActionInputs} \cup created :
        a.ok =>
          LET after == budgetReducer(state, a.v)
          IN  CASE a.v.type = "RESET_ALL_ALLOCATIONS" ->
                     /\ DOMAIN after.allocations = {}
                     /\ sameBut(after, {"allocations"})
                [] a.v.type = "SET_TOTAL_BUDGET" -> sameBut(after, {"totalBudget"})
                [] a.v.type = "SET_TARGET" -> sameBut(after, {"targetT"})
                [] a.v.type = "SET_FUTURE_BUDGETS" -> sameBut(after, {"futureBudgets"})
                [] a.v.type = "SET_ALLOCATION" ->
                     /\ sameBut(after, {"allocations"})
                     /\ \A id \in (DOMAIN state.allocations
                                     \cup DOMAIN after.allocations)
                                  \ {a.v.payload.interventionId} :
                           /\ id \in DOMAIN state.allocations
                           /\ id \in DOMAIN after.allocations
                           /\ after.allocations[id] = state.allocations[id]
                [] OTHER -> after = state

C18_Witness ==
  /\ outcome = "cleared"
  /\ IdA \notin DOMAIN state.allocations
  /\ stored(state.allocations, IdB) = N(4000)
  /\ stored(state.allocations, IdC) = N(4000)
  /\ state.totalBudget = N(4000)
  /\ state.targetT = N(150)
  /\ state.futureBudgets # initialState.futureBudgets

C20_InvalidInputThrows ==
  (pc = "done" /\ fnOut.fn = "computePortfolioMetrics") =>
    LET bad(x) == x[2] = 0 \/ x[1] < 0
    IN  ( \/ bad(fnIn.totalBudget)
          \/ bad(fnIn.targetT)
          \/ \E k \in 1..Len(fnIn.catalog) :
                /\ fnIn.catalog[k].id \in DOMAIN fnIn.allocations
                /\ bad(fnIn.allocations[fnIn.catalog[k].id]) )
        => ~fnOut.result.ok

\* C21: two ROI fills of different categories that both take
\* remainingBudget and the current spends from the same allocation snapshot
\* add, together, what each would add alone, and so can raise the sum of
\* all allocations above totalBudget: they do whenever the two amounts
\* exceed the remaining budget of the snapshot.
C21_SnapshotOvercommit ==
  (/\ pc = "done"
   /\ fnOut.fn = "handleDistributeByROI"
   /\ validInputs
   /\ fnOut.cats[1] # fnOut.cats[2]) =>
    LET st == snapshot
        alone(c) == Sub(sumValues(afterFill(st, fnIn.catalog, c).allocations),
                        sumValues(st.allocations))
        given == Add(alone(fnOut.cats[1]), alone(fnOut.cats[2]))
        remaining == Sub(st.totalBudget, sumValues(st.allocations))
        total == sumValues(fnOut.result.allocations)
    IN  /\ total = Add(sumValues(st.allocations), given)
        /\ Gt(given, remaining) <=> Gt(total, st.totalBudget)

C21_Witness ==
  /\ pc = "done"
  /\ fnOut.fn = "handleDistributeByROI"
  /\ validInputs
  /\ fnOut.cats = <<"Electricity", "Water">>
  /\ fnIn.totalBudget = N(4000)
  /\ DOMAIN fnIn.allocations = {}
  /\ fnOut.result.allocations[IdA] = N(3000)
  /\ fnOut.result.allocations[IdB] = N(1000)
  /\ fnOut.result.allocations[IdC] = N(4000)
  /\ Gt(sumValues(fnOut.result.allocations), fnIn.totalBudget)

\* C22: every ROI fill terminates; it visits each intervention of the
\* category at most once and dispatches at most one setAllocation per
\* intervention (the finished loop has dispatched what handleDistributeByROI
\* dispatches).
C22_FillTerminates ==
  /\ <>(pc = "done")
  /\ [](pc # "idle" =>
        LET actions == loopAcc.actions
        IN  /\ fnOut.k <= Len(loopInterventions)
            /\ Len(actions) <= fnOut.k
            /\ \A i, j \in 1..Len(actions) :
                  actions[i].payload.interventionId = actions[j].payload.interventionId
                    => i = j
            /\ \A i \in 1..Len(actions) :
                  /\ actions[i].type = "SET_ALLOCATION"
                  /\ \E n \in 1..fnOut.k :
                        loopInterventions[n].id = actions[i].payload.interventionId
            /\ pc = "done" =>
                  loopAcc = handleDistributeByROI(
                                snapshot,
                                getInterventionsForCategory(fnIn.catalog, fnIn.cat)))

C22_Witness ==
  /\ pc = "done"
  /\ fnIn.cat = "Electricity"
  /\ fnOut.k = 2
  /\ Len(loopAcc.actions) = 2
  /\ ~loopAcc.threw

\* C23: derived values are never stale: after any sequence of mutations the
\* metrics, the MACC rows and the category breakdown held by the memoising
\* components equal the values recomputed from the current state.
C23_NeverStale ==
  /\ fnOut.portfolioMetrics = portfolioMetrics(state)
  /\ fnOut.fundedRows = fundedRows(interventionsCatalog, state.allocations)
  /\ fnOut.categoryData = categoryData(interventionsCatalog, state.allocations)

C23_Witness ==
  /\ outcome = "applied"
  /\ state.targetT = N(150)
  /\ state.totalBudget = N(4000)
  /\ fnOut.portfolioMetrics.gapToTarget = Zero
  /\ fnOut.portfolioMetrics.budgetUtilisation = N(200)
  /\ Len(fnOut.fundedRows) = 2
  /\ Len(fnOut.categoryData) = 1

C26_NoBudgetNoDispatch ==
  (pc # "idle" /\ Le(Sub(snapshot.totalBudget, sumValues(snapshot.allocations)), Zero)) =>
    /\ loopAcc.actions = <<>>
    /\ ~loopAcc.threw
    /\ reduceAll(snapshot, loopAcc.actions) = snapshot

\* the handler has run on allocations equal to totalBudget, with capacity left
C26_Witness ==
  /\ pc = "done"
  /\ fnIn.cat = "Electricity"
  /\ fnIn.totalBudget = N(4000)
  /\ sumValues(fnIn.allocations) = N(4000)
  /\ IdB \notin DOMAIN fnIn.allocations
  /\ validIntervention(fnIn.catalog[1])
  /\ fnOut.k = 2

C28_SameAbatement ==
  (pc = "done" /\ validIntervention(fnIn.intervention)) =>
    \A k \in 1..2 :
      LET s == IF k = 1 THEN fnIn.s1 ELSE fnIn.s2
      IN  isFinite(s) =>
            /\ fnOut[k].ok
            /\ calculateAbatement(fnIn.intervention, s) = fnOut[k].v

\* a spend above the ceiling cost and a negative spend
C28_Witness ==
  /\ pc = "done"
  /\ fnIn.intervention.costPerT = N(30)
  /\ fnIn.intervention.maxTPerYear = N(100)
  /\ fnIn.s1 = N(4000)
  /\ fnIn.s2 = N(-500)
  /\ fnOut[1] = Ret(N(100))
  /\ calculateAbatement(fnIn.intervention, fnIn.s1) = N(100)
  /\ calculateAbatement(fnIn.intervention, fnIn.s2) = Zero

\* C29: the two target indicators agree in every reachable state: the
\* target progress of the KPIs equals 100 exactly when gapToTarget equals
\* 0, and the target progress always lies in [0, 100].
C29_TargetIndicatorsAgree ==
  LET m == portfolioMetrics(state)
      progress == derivedMetrics(state).targetProgress
  IN  /\ (progress = N(100)) <=> (m.gapToTarget = Zero)
      /\ Ge(progress, Zero)
      /\ Le(progress, N(100))

\* the SET_ALLOCATION actions the setAllocation creator returns
SetAllocationActions ==
  {setAllocation(id, v).v :
     id \in CatalogIds \cup {IdPadded}, v \in SpendValues \cup {<<8001, 2>>}}

\* C30: setAllocation actions on distinct intervention ids commute, and a
\* repeated setAllocation on the same id is last-write-wins and idempotent,
\* so the allocations that result from the setAllocation dispatches of one
\* ROI fill do not depend on the order in which the reducer applies them.
C30_SetAllocationCommutes ==
  /\ \A a1, a2 \in SetAllocationActions :
        LET both == budgetReducer(budgetReducer(state, a1), a2)
        IN  /\ a1.payload.interventionId # a2.payload.interventionId
               => both = budgetReducer(budgetReducer(state, a2), a1)
            /\ a1.payload.interventionId = a2.payload.interventionId
               => both = budgetReducer(state, a2)
            /\ budgetReducer(budgetReducer(state, a1), a1) = budgetReducer(state, a1)
  /\ \A cat \in Categories :
        LET actions == handleDistributeByROI(
                         state, getInterventionsForCategory(interventionsCatalog, cat)).actions
            n == Len(actions)
        IN  \A p \in {q \in [1..n -> 1..n] : \A i, j \in 1..n : q[i] = q[j] => i = j} :
               reduceAll(state, [i \in 1..n |-> actions[p[i]]])
                 = reduceAll(state, actions)

\* an allocation was set and the fill of Electricity would dispatch two actions
C30_Witness ==
  /\ outcome = "applied"
  /\ state.totalBudget = N(500000)
  /\ stored(state.allocations, IdC) = N(4000)
  /\ IdA \notin DOMAIN state.allocations
  /\ IdB \notin DOMAIN state.allocations
  /\ Len(handleDistributeByROI(
           state, getInterventionsForCategory(interventionsCatalog, "Electricity")).actions) = 2

====
